---- MODULE Spec2Model ----
(***************************************************************************)
(* Model of the AP Calculus question selector: the QuestionExtractor of   *)
(* question_selector_cli.py (page segmentation, keyword classification,   *)
(* per-document extraction, topic filter and limit).                      *)
(*                                                                         *)
(* A Python str is a sequence of one-character strings; a list is a       *)
(* sequence; None is the empty sequence and a present optional value v    *)
(* the one-element sequence <<v>>.                                        *)
(***************************************************************************)
EXTENDS Integers, Sequences, FiniteSets, TLC

VARIABLES
    files,              \* the PDF directory as far as the run has observed it
    pc,                 \* position of the get_questions_by_topics call
    tb_idx,             \* index into test_banks of the loop at line 124
    questions,          \* local list of extract_questions_from_pdf
    page_num,           \* loop variable of line 67 (0-based)
    all_questions,      \* local list of get_questions_by_topics
    selected_topics,    \* argument of get_questions_by_topics
    max_questions,      \* argument of get_questions_by_topics
    matching_questions, \* the list get_questions_by_topics returns
    stdout,             \* the "Error reading ..." lines printed (file names)
    op,                 \* unit calls: the function last called
    arg,                \* unit calls: its argument
    ret,                \* unit calls: its return value
    topic_keywords,     \* the module-level dict TOPIC_KEYWORDS
    call_log,           \* repeated calls: the calls made so far, in order
    procs,              \* per document: an extraction run as a process of its own
    ui_pc,              \* position of the front end (main of the CLI, the GUI)
    course,             \* the course selected: local of main, course_var of the GUI
    chapters,           \* main: the dict display_chapters returned
    selected_chapters,  \* the chapters selected: selected_chapters of main,
                        \* selected_topics of search_questions
    num_questions,      \* the count entered, once accepted
    chapter_listbox,    \* GUI: the entries of the chapter list box
    invoked             \* the arguments of the get_questions_by_topics call made

vars == <<files, pc, tb_idx, questions, page_num,
          all_questions, selected_topics, max_questions, matching_questions,
          stdout, op, arg, ret, topic_keywords, call_log, procs,
          ui_pc, course, chapters, selected_chapters, num_questions,
          chapter_listbox, invoked>>

pipeline_vars == <<files, pc, tb_idx, questions, page_num,
                   all_questions, selected_topics, max_questions,
                   matching_questions, stdout>>

call_vars == <<op, arg, ret>>

ui_vars == <<ui_pc, course, chapters, selected_chapters, num_questions,
             chapter_listbox, invoked>>

aux_vars == <<topic_keywords, call_log, procs, ui_vars>>

-----------------------------------------------------------------------------
\* Bounds of the model.

\* lines per page text drawn for _split_into_questions
MaxLines == 4
\* characters per raw page text drawn for _split_into_questions
MaxChars == 4
\* lines per block text drawn for _identify_topics
MaxBlockLines == 2
\* size of the PDF directory: one unit per existing file plus one per page
MaxDirSize == 4
\* largest max_questions passed to get_questions_by_topics
MaxLimit == 2

-----------------------------------------------------------------------------
\* Program constants.

\* TOPIC_KEYWORDS, in dict (insertion) order: the characters of each keyword
TOPIC_KEYWORDS ==
    <<
       [topic_num |-> "1", keywords |-> <<
          <<"l","i","m","i","t">>,   \* "limit"
          <<"c","o","n","t","i","n","u","i","t","y">>,   \* "continuity"
          <<"a","s","y","m","p","t","o","t","e">>,   \* "asymptote"
          <<"d","i","s","c","o","n","t","i","n","u","i","t","y">>,   \* "discontinuity"
          <<"i","n","t","e","r","m","e","d","i","a","t","e"," ","v","a","l","u","e">>    \* "intermediate value"
       >>],
       [topic_num |-> "2", keywords |-> <<
          <<"d","e","r","i","v","a","t","i","v","e">>,   \* "derivative"
          <<"r","a","t","e"," ","o","f"," ","c","h","a","n","g","e">>,   \* "rate of change"
          <<"t","a","n","g","e","n","t"," ","l","i","n","e">>,   \* "tangent line"
          <<"d","i","f","f","e","r","e","n","t","i","a","b","l","e">>,   \* "differentiable"
          <<"p","o","w","e","r"," ","r","u","l","e">>    \* "power rule"
       >>],
       [topic_num |-> "3", keywords |-> <<
          <<"c","h","a","i","n"," ","r","u","l","e">>,   \* "chain rule"
          <<"i","m","p","l","i","c","i","t"," ","d","i","f","f","e","r","e","n","t","i","a","t","i","o","n">>,   \* "implicit differentiation"
          <<"i","n","v","e","r","s","e"," ","f","u","n","c","t","i","o","n">>,   \* "inverse function"
          <<"c","o","m","p","o","s","i","t","e">>    \* "composite"
       >>],
       [topic_num |-> "4", keywords |-> <<
          <<"r","e","l","a","t","e","d"," ","r","a","t","e","s">>,   \* "related rates"
          <<"m","o","t","i","o","n">>,   \* "motion"
          <<"v","e","l","o","c","i","t","y">>,   \* "velocity"
          <<"a","c","c","e","l","e","r","a","t","i","o","n">>,   \* "acceleration"
          <<"o","p","t","i","m","i","z","a","t","i","o","n">>    \* "optimization"
       >>],
       [topic_num |-> "5", keywords |-> <<
          <<"m","e","a","n"," ","v","a","l","u","e"," ","t","h","e","o","r","e","m">>,   \* "mean value theorem"
          <<"c","r","i","t","i","c","a","l"," ","p","o","i","n","t">>,   \* "critical point"
          <<"e","x","t","r","e","m","a">>,   \* "extrema"
          <<"i","n","c","r","e","a","s","i","n","g">>,   \* "increasing"
          <<"d","e","c","r","e","a","s","i","n","g">>,   \* "decreasing"
          <<"c","o","n","c","a","v","i","t","y">>,   \* "concavity"
          <<"i","n","f","l","e","c","t","i","o","n">>    \* "inflection"
       >>],
       [topic_num |-> "6", keywords |-> <<
          <<"i","n","t","e","g","r","a","l">>,   \* "integral"
          <<"a","n","t","i","d","e","r","i","v","a","t","i","v","e">>,   \* "antiderivative"
          <<"r","i","e","m","a","n","n"," ","s","u","m">>,   \* "riemann sum"
          <<"a","c","c","u","m","u","l","a","t","i","o","n">>,   \* "accumulation"
          <<"f","u","n","d","a","m","e","n","t","a","l"," ","t","h","e","o","r","e","m">>    \* "fundamental theorem"
       >>],
       [topic_num |-> "7", keywords |-> <<
          <<"d","i","f","f","e","r","e","n","t","i","a","l"," ","e","q","u","a","t","i","o","n">>,   \* "differential equation"
          <<"s","l","o","p","e"," ","f","i","e","l","d">>,   \* "slope field"
          <<"e","x","p","o","n","e","n","t","i","a","l"," ","g","r","o","w","t","h">>,   \* "exponential growth"
          <<"s","e","p","a","r","a","t","i","o","n"," ","o","f"," ","v","a","r","i","a","b","l","e","s">>    \* "separation of variables"
       >>],
       [topic_num |-> "8", keywords |-> <<
          <<"a","r","e","a">>,   \* "area"
          <<"v","o","l","u","m","e">>,   \* "volume"
          <<"d","i","s","k">>,   \* "disk"
          <<"w","a","s","h","e","r">>,   \* "washer"
          <<"a","v","e","r","a","g","e"," ","v","a","l","u","e">>    \* "average value"
       >>],
       [topic_num |-> "9", keywords |-> <<
          <<"p","a","r","a","m","e","t","r","i","c">>,   \* "parametric"
          <<"p","o","l","a","r">>,   \* "polar"
          <<"v","e","c","t","o","r">>    \* "vector"
       >>],
       [topic_num |-> "10", keywords |-> <<
          <<"s","e","r","i","e","s">>,   \* "series"
          <<"s","e","q","u","e","n","c","e">>,   \* "sequence"
          <<"c","o","n","v","e","r","g","e","n","c","e">>,   \* "convergence"
          <<"d","i","v","e","r","g","e","n","c","e">>,   \* "divergence"
          <<"t","a","y","l","o","r">>,   \* "taylor"
          <<"m","a","c","l","a","u","r","i","n">>    \* "maclaurin"
       >>]
    >>

\* AP_CALCULUS_AB_CHAPTERS (lines 16-25), in dict order: key and chapter name
AP_CALCULUS_AB_CHAPTERS ==
    <<
       \* "1": "Limits and Continuity"
       [num |-> <<"1">>, name |->
          <<"L","i","m","i","t","s"," ","a","n","d"," ","C","o","n","t","i","n","u","i","t","y">>],
       \* "2": "Differentiation: Definition and Fundamental Properties"
       [num |-> <<"2">>, name |->
          <<"D","i","f","f","e","r","e","n","t","i","a","t","i","o","n",":"," ","D","e","f","i","n","i","t","i","o","n"," ","a","n","d"," ","F","u","n","d","a","m","e","n","t","a","l"," ","P","r","o","p","e","r","t","i","e","s">>],
       \* "3": "Differentiation: Composite, Implicit, and Inverse Functions"
       [num |-> <<"3">>, name |->
          <<"D","i","f","f","e","r","e","n","t","i","a","t","i","o","n",":"," ","C","o","m","p","o","s","i","t","e",","," ","I","m","p","l","i","c","i","t",","," ","a","n","d"," ","I","n","v","e","r","s","e"," ","F","u","n","c","t","i","o","n","s">>],
       \* "4": "Contextual Applications of Differentiation"
       [num |-> <<"4">>, name |->
          <<"C","o","n","t","e","x","t","u","a","l"," ","A","p","p","l","i","c","a","t","i","o","n","s"," ","o","f"," ","D","i","f","f","e","r","e","n","t","i","a","t","i","o","n">>],
       \* "5": "Analytical Applications of Differentiation"
       [num |-> <<"5">>, name |->
          <<"A","n","a","l","y","t","i","c","a","l"," ","A","p","p","l","i","c","a","t","i","o","n","s"," ","o","f"," ","D","i","f","f","e","r","e","n","t","i","a","t","i","o","n">>],
       \* "6": "Integration and Accumulation of Change"
       [num |-> <<"6">>, name |->
          <<"I","n","t","e","g","r","a","t","i","o","n"," ","a","n","d"," ","A","c","c","u","m","u","l","a","t","i","o","n"," ","o","f"," ","C","h","a","n","g","e">>],
       \* "7": "Differential Equations"
       [num |-> <<"7">>, name |->
          <<"D","i","f","f","e","r","e","n","t","i","a","l"," ","E","q","u","a","t","i","o","n","s">>],
       \* "8": "Applications of Integration"
       [num |-> <<"8">>, name |->
          <<"A","p","p","l","i","c","a","t","i","o","n","s"," ","o","f"," ","I","n","t","e","g","r","a","t","i","o","n">>]
    >>

\* AP_CALCULUS_BC_ADDITIONAL (lines 28-31)
AP_CALCULUS_BC_ADDITIONAL ==
    <<
       \* "9": "Parametric Equations, Polar Coordinates, and Vector-Valued Functions"
       [num |-> <<"9">>, name |->
          <<"P","a","r","a","m","e","t","r","i","c"," ","E","q","u","a","t","i","o","n","s",","," ","P","o","l","a","r"," ","C","o","o","r","d","i","n","a","t","e","s",","," ","a","n","d"," ","V","e","c","t","o","r","-","V","a","l","u","e","d"," ","F","u","n","c","t","i","o","n","s">>],
       \* "10": "Infinite Sequences and Series"
       [num |-> <<"1","0">>, name |->
          <<"I","n","f","i","n","i","t","e"," ","S","e","q","u","e","n","c","e","s"," ","a","n","d"," ","S","e","r","i","e","s">>]
    >>

\* TOPIC_KEYWORDS as the dict object the module holds (lines 34-45), in
\* insertion order, each keyword named by a string
TOPIC_KEYWORDS_DICT ==
    <<
       [topic_num |-> "1", keywords |->
          <<"limit", "continuity", "asymptote", "discontinuity", "intermediate value">>],
       [topic_num |-> "2", keywords |->
          <<"derivative", "rate of change", "tangent line", "differentiable", "power rule">>],
       [topic_num |-> "3", keywords |->
          <<"chain rule", "implicit differentiation", "inverse function", "composite">>],
       [topic_num |-> "4", keywords |->
          <<"related rates", "motion", "velocity", "acceleration", "optimization">>],
       [topic_num |-> "5", keywords |->
          <<"mean value theorem", "critical point", "extrema", "increasing", "decreasing", "concavity", "inflection">>],
       [topic_num |-> "6", keywords |->
          <<"integral", "antiderivative", "riemann sum", "accumulation", "fundamental theorem">>],
       [topic_num |-> "7", keywords |->
          <<"differential equation", "slope field", "exponential growth", "separation of variables">>],
       [topic_num |-> "8", keywords |->
          <<"area", "volume", "disk", "washer", "average value">>],
       [topic_num |-> "9", keywords |->
          <<"parametric", "polar", "vector">>],
       [topic_num |-> "10", keywords |->
          <<"series", "sequence", "convergence", "divergence", "taylor", "maclaurin">>]
    >>

\* the characters of the keyword a string names
keyword_chars ==
    [name \in UNION {{TOPIC_KEYWORDS_DICT[t].keywords[k] :
                        k \in DOMAIN TOPIC_KEYWORDS_DICT[t].keywords} :
                     t \in DOMAIN TOPIC_KEYWORDS_DICT} |->
        LET t == CHOOSE t \in DOMAIN TOPIC_KEYWORDS_DICT :
                    \E k \in DOMAIN TOPIC_KEYWORDS_DICT[t].keywords :
                        TOPIC_KEYWORDS_DICT[t].keywords[k] = name
            k == CHOOSE k \in DOMAIN TOPIC_KEYWORDS_DICT[t].keywords :
                    TOPIC_KEYWORDS_DICT[t].keywords[k] = name
        IN TOPIC_KEYWORDS[t].keywords[k]]

\* self.test_banks = [f"TB_{i}.pdf" for i in [1, 3, 4, 5, 6, 7]]
test_banks ==
    <<"TB_1.pdf", "TB_3.pdf", "TB_4.pdf", "TB_5.pdf", "TB_6.pdf", "TB_7.pdf">>

-----------------------------------------------------------------------------
\* Python str primitives.

\* characters str.isspace() and the regex class \s accept (ASCII part)
Whitespace == {" ", "\t", "\n", "\r", "\f"}

\* characters the regex class \d accepts (ASCII part)
Digits == {"0", "1", "2", "3", "4", "5", "6", "7", "8", "9"}

UpperCase ==
    <<"A","B","C","D","E","F","G","H","I","J","K","L","M",
      "N","O","P","Q","R","S","T","U","V","W","X","Y","Z">>

LowerCase ==
    <<"a","b","c","d","e","f","g","h","i","j","k","l","m",
      "n","o","p","q","r","s","t","u","v","w","x","y","z">>

\* str.lower() on one character
lower_char(c) ==
    IF \E i \in DOMAIN UpperCase : UpperCase[i] = c
    THEN LowerCase[CHOOSE i \in DOMAIN UpperCase : UpperCase[i] = c]
    ELSE c

\* str.lower()
str_lower(text) == [i \in 1..Len(text) |-> lower_char(text[i])]

\* keyword in text (substring test)
str_contains(keyword, text) ==
    \E i \in 0..(Len(text) - Len(keyword)) :
        SubSeq(text, i + 1, i + Len(keyword)) = keyword

\* text.split('\n')
str_split(text) ==
    LET RECURSIVE scan(_, _, _)
        scan(i, cur, acc) ==
            IF i > Len(text) THEN Append(acc, cur)
            ELSE IF text[i] = "\n" THEN scan(i + 1, <<>>, Append(acc, cur))
            ELSE scan(i + 1, Append(cur, text[i]), acc)
    IN scan(1, <<>>, <<>>)

\* '\n'.join(lines)
str_join(lines) ==
    LET RECURSIVE glue(_, _)
        glue(i, acc) ==
            IF i > Len(lines) THEN acc
            ELSE glue(i + 1, IF i = 1 THEN lines[1] ELSE acc \o <<"\n">> \o lines[i])
    IN glue(1, <<>>)

\* line.strip()
str_strip(line) ==
    LET solid == {i \in 1..Len(line) : line[i] \notin Whitespace}
        first == CHOOSE i \in solid : \A j \in solid : i <= j
        last  == CHOOSE i \in solid : \A j \in solid : j <= i
    IN IF solid = {} THEN <<>> ELSE SubSeq(line, first, last)

\* the pattern without its trailing \s+ (a line such as "1.a" matches)
re_match_question_no_space(s) ==
    LET RECURSIVE skip(_, _)
        skip(i, class) ==
            IF i <= Len(s) /\ s[i] \in class THEN skip(i + 1, class) ELSE i
        d0 == skip(1, Whitespace)
        d1 == skip(d0, Digits)
    IN /\ d1 > d0
       /\ d1 <= Len(s) /\ s[d1] = "."

\* re.match(r'^\s*\d+\.\s+', s): the match anchors at the start of s, skips
\* whitespace, takes one or more digits, a period, one or more whitespace
re_match_question(s) ==
    LET RECURSIVE skip(_, _)
        skip(i, class) ==
            IF i <= Len(s) /\ s[i] \in class THEN skip(i + 1, class) ELSE i
        d0 == skip(1, Whitespace)
        d1 == skip(d0, Digits)
        w1 == skip(d1 + 1, Whitespace)
    IN /\ d1 > d0
       /\ d1 <= Len(s) /\ s[d1] = "."
       /\ w1 > d1 + 1

\* lines the page texts of the unit calls are made of
SplitLines ==
    { <<>>   \* ""
    , <<"a">>   \* "a"
    , <<"1","."," ","a">>   \* "1. a"
    , <<" "," ","2","."," ","b">>   \* "  2. b"
    , <<"1",".","a">>   \* "1.a"
    , <<"1","2",".","\t","c"," ">>   \* "12.\tc "
    , <<"x"," ","5","."," ","e">>   \* "x 5. e"
    }

\* lines the block texts of the unit calls are made of
TopicLines ==
    { <<>>   \* ""
    , <<"1","."," ","L","i","m","i","t">>   \* "1. Limit"
    , <<"a","n","t","i","d","e","r","i","v","a","t","i","v","e">>   \* "antiderivative"
    , <<"D","I","S","C","O","N","T","I","N","U","I","T","Y">>   \* "DISCONTINUITY"
    , <<"2","."," ","a","r","e","a"," ","o","f"," ","p","o","l","a","r">>   \* "2. area of polar"
    , <<"l","i","m"," ","i","t">>   \* "lim it"
    , <<"x"," ","="," ","3">>   \* "x = 3"
    , <<"T","a","y","l","o","r"," ","s","e","r","i","e","s">>   \* "Taylor series"
    , <<"r","a","t","e"," ","o","f">>   \* "rate of"
    , <<"c","h","a","n","g","e">>   \* "change"
    }

\* page texts extract_text() yields in the pipeline runs
PageA ==
    <<"A","P"," ","C","a","l","c","\n","1","."," ","L","i","m","i","t","\n","2","."," ","x"," ","="," ","3","\n","3","."," ","a","n","t","i","d","e","r","i","v","a","t","i","v","e">>

PageB ==
    <<"S","e","c","t","i","o","n"," ","I","I">>
-----------------------------------------------------------------------------
\* QuestionExtractor._split_into_questions

\* the test of line 93 on one line of the page
is_question_start(line) == re_match_question(str_strip(line))

\* line 95 / line 101: close the block being accumulated, if any
close_block(questions_, current_question) ==
    IF current_question # <<>>
    THEN Append(questions_, str_join(current_question))
    ELSE questions_

\* the loop with the guard of line 97 dropped: a line met before the first
\* question-start line opens a block
RECURSIVE split_loop_keep_header(_, _, _, _)
split_loop_keep_header(lines, i, questions_, current_question) ==
    IF i > Len(lines) THEN close_block(questions_, current_question)
    ELSE IF is_question_start(lines[i])
         THEN split_loop_keep_header(lines, i + 1,
                         close_block(questions_, current_question),
                         <<lines[i]>>)
    ELSE split_loop_keep_header(lines, i + 1, questions_,
                         Append(current_question, lines[i]))

\* the loop with line.strip() kept in place of the line: the blocks hold
\* the stripped lines
RECURSIVE split_loop_strip(_, _, _, _)
split_loop_strip(lines, i, questions_, current_question) ==
    IF i > Len(lines) THEN close_block(questions_, current_question)
    ELSE IF is_question_start(lines[i])
         THEN split_loop_strip(lines, i + 1,
                         close_block(questions_, current_question),
                         <<str_strip(lines[i])>>)
    ELSE IF current_question # <<>>
         THEN split_loop_strip(lines, i + 1, questions_,
                         Append(current_question, str_strip(lines[i])))
    ELSE split_loop_strip(lines, i + 1, questions_, current_question)

\* the loop of lines 91-98 from line i on, then lines 100-103
RECURSIVE split_loop(_, _, _, _)
split_loop(lines, i, questions_, current_question) ==
    IF i > Len(lines) THEN close_block(questions_, current_question)
    ELSE IF is_question_start(lines[i])
         THEN split_loop(lines, i + 1,
                         close_block(questions_, current_question),
                         <<lines[i]>>)
    ELSE IF current_question # <<>>
         THEN split_loop(lines, i + 1, questions_,
                         Append(current_question, lines[i]))
    ELSE split_loop(lines, i + 1, questions_, current_question)

_split_into_questions(text) == split_loop(str_split(text), 1, <<>>, <<>>)

-----------------------------------------------------------------------------
\* QuestionExtractor._identify_topics

\* lines 111-114: TRUE when some keyword is found (append and break)
RECURSIVE keyword_loop(_, _, _)
keyword_loop(keywords, k, text_lower) ==
    IF k > Len(keywords) THEN FALSE
    ELSE IF str_contains(keyword_chars[keywords[k]], text_lower) THEN TRUE
    ELSE keyword_loop(keywords, k + 1, text_lower)

\* lines 110-114 from dict entry t on: the list topics
RECURSIVE topic_loop(_, _, _, _)
topic_loop(table, t, text_lower, topics) ==
    IF t > Len(table) THEN topics
    ELSE topic_loop(table, t + 1, text_lower,
                    IF keyword_loop(table[t].keywords, 1, text_lower)
                    THEN Append(topics, table[t].topic_num)
                    ELSE topics)

\* the keyword search on the text as given, without line 108's lower()
matched_topics_case_sensitive(question_text) ==
    topic_loop(topic_keywords, 1, question_text, <<>>)

\* lines 107-114: the list topics before line 116; line 110 reads the dict
matched_topics(question_text) ==
    topic_loop(topic_keywords, 1, str_lower(question_text), <<>>)

\* set(topics) of line 116
set_of(list) == {list[i] : i \in DOMAIN list}

\* list(s) of line 116: a set's iteration order is not fixed, so every
\* duplicate-free listing of its elements is a possible value
list_of(s) ==
    {l \in [1..Cardinality(s) -> s] : \A i, j \in DOMAIN l : l[i] = l[j] => i = j}

\* the lists a call _identify_topics(question_text) can return
_identify_topics(question_text) == list_of(set_of(matched_topics(question_text)))

-----------------------------------------------------------------------------
\* Unit calls of the two pure methods.

SeqsUpTo(S, n) == UNION {[1..k -> S] : k \in 0..n}

\* characters of the raw page texts
RawChars == {"1", ".", " ", "a", "\n"}

\* the page texts _split_into_questions is called with
PageTexts ==
    {str_join(ls) : ls \in SeqsUpTo(SplitLines, MaxLines)}
        \cup SeqsUpTo(RawChars, MaxChars)

\* the block texts _identify_topics is called with
BlockTexts == {str_join(ls) : ls \in SeqsUpTo(TopicLines, MaxBlockLines)}

PipelineInit ==
    /\ files = [f \in set_of(test_banks) |->
                    [state |-> "unseen", num_pages |-> 0, pages |-> <<>>]]
    /\ pc = "call"
    /\ tb_idx = 0
    /\ questions = <<>>
    /\ page_num = 0
    /\ all_questions = <<>>
    /\ selected_topics = <<>>
    /\ max_questions = <<>>
    /\ matching_questions = <<>>
    /\ stdout = <<>>
    /\ topic_keywords = TOPIC_KEYWORDS_DICT
    /\ call_log = <<>>
    /\ procs = [f \in set_of(test_banks) |->
                    [pc |-> "exists", questions |-> <<>>, page_num |-> 0,
                     stdout |-> <<>>]]
    /\ ui_pc = "off"
    /\ course = ""
    /\ chapters = <<>>
    /\ selected_chapters = <<>>
    /\ num_questions = <<>>
    /\ chapter_listbox = <<>>
    /\ invoked = <<>>

\* the pipeline run: no unit call is pending
Init ==
    /\ PipelineInit
    /\ op = "none"
    /\ arg = <<>>
    /\ ret = <<>>

\* a unit call is about to be made with an argument drawn from the pools;
\* ret is None until the call returns
CallInit ==
    /\ PipelineInit
    /\ \/ op = "_split_into_questions" /\ arg \in PageTexts
       \/ op = "_identify_topics" /\ arg \in BlockTexts
    /\ ret = <<>>

SplitCall ==
    /\ op = "_split_into_questions"
    /\ ret = <<>>
    /\ ret' = <<_split_into_questions(arg)>>
    /\ UNCHANGED <<pipeline_vars, op, arg, aux_vars>>

IdentifyCall ==
    /\ op = "_identify_topics"
    /\ ret = <<>>
    /\ \E topics \in _identify_topics(arg) : ret' = <<topics>>
    /\ UNCHANGED <<pipeline_vars, op, arg, aux_vars>>

CallNext == SplitCall \/ IdentifyCall

CallSpec == CallInit /\ [][CallNext]_vars

-----------------------------------------------------------------------------
\* Repeated calls of the two methods on one QuestionExtractor, in any order.

\* calls made in one run
MaxCalls == 3

\* the texts the repeated calls are made with: the pages of the pipeline
\* runs for _split_into_questions, their blocks and a page without block
\* for _identify_topics
RepeatPageTexts == {PageA, PageB}

RepeatBlockTexts == set_of(_split_into_questions(PageA)) \cup {PageB}

\* a call that deletes from TOPIC_KEYWORDS the entries it matched
RepeatIdentify_consume ==
    /\ Len(call_log) < MaxCalls
    /\ \E text \in RepeatBlockTexts :
         \E topics \in _identify_topics(text) :
            /\ op' = "_identify_topics"
            /\ arg' = text
            /\ ret' = <<topics>>
            /\ call_log' = Append(call_log,
                              [op |-> "_identify_topics", arg |-> text, ret |-> topics])
            /\ topic_keywords' =
                  SelectSeq(topic_keywords,
                            LAMBDA entry : entry.topic_num \notin set_of(topics))
    /\ UNCHANGED <<pipeline_vars, procs, ui_vars>>

\* lines 105-116: one more call of _identify_topics; the method assigns only
\* its locals topics and text_lower
RepeatIdentify ==
    /\ Len(call_log) < MaxCalls
    /\ \E text \in RepeatBlockTexts :
         \E topics \in _identify_topics(text) :
            /\ op' = "_identify_topics"
            /\ arg' = text
            /\ ret' = <<topics>>
            /\ call_log' = Append(call_log,
                              [op |-> "_identify_topics", arg |-> text, ret |-> topics])
    /\ UNCHANGED <<pipeline_vars, topic_keywords, procs, ui_vars>>

\* lines 85-103: one more call of _split_into_questions; the method assigns
\* only its locals lines, questions and current_question
RepeatSplit ==
    /\ Len(call_log) < MaxCalls
    /\ \E text \in RepeatPageTexts :
            /\ op' = "_split_into_questions"
            /\ arg' = text
            /\ ret' = <<_split_into_questions(text)>>
            /\ call_log' = Append(call_log,
                              [op |-> "_split_into_questions", arg |-> text,
                               ret |-> _split_into_questions(text)])
    /\ UNCHANGED <<pipeline_vars, topic_keywords, procs, ui_vars>>

RepeatNext == RepeatIdentify \/ RepeatSplit

RepeatSpec == Init /\ [][RepeatNext]_vars

-----------------------------------------------------------------------------
\* The PDF directory.  A file is observed as the run reaches it: whether it
\* exists (line 60), whether PdfReader accepts it and how many pages it has
\* (lines 64-67), and what extract_text() gives for each page (line 68).
\* files[f].pages lists the outcomes of the pages read so far, in page order.

\* what extract_text() can do on a page: return its text or raise
PageOutcomes ==
    {[raises |-> FALSE, text |-> t] : t \in {PageA, PageB}}
        \cup {[raises |-> TRUE, text |-> <<>>]}

\* one unit per file the run found to exist, one per page of an opened file
DirSize ==
    LET cost(f) == IF files[f].state \in {"unseen", "missing"}
                   THEN 0 ELSE 1 + files[f].num_pages
        RECURSIVE sum(_)
        sum(i) == IF i > Len(test_banks) THEN 0
                  ELSE cost(test_banks[i]) + sum(i + 1)
    IN sum(1)

-----------------------------------------------------------------------------
\* QuestionExtractor.extract_questions_from_pdf

\* 'page': page_num, the 0-based loop variable
page_number_zero_based(n) == n

\* 'page': page_num + 1 (line 76)
page_number(n) == n + 1

\* the loop over the blocks with an 'if topics:' before the append: a block
\* no keyword matches leaves no dict
RECURSIVE block_records_skip_untagged(_, _, _, _)
block_records_skip_untagged(filename, n, question_blocks, i) ==
    IF i > Len(question_blocks) THEN {<<>>}
    ELSE {(IF t = <<>> THEN <<>>
           ELSE <<[source |-> filename,
                   page   |-> page_number(n),
                   text   |-> question_blocks[i],
                   topics |-> t]>>) \o rest :
            t \in _identify_topics(question_blocks[i]),
            rest \in block_records_skip_untagged(filename, n, question_blocks, i + 1)}

\* lines 73-79: the lists of dicts the loop over the blocks from block i on
\* can append (one list per choice of the order of each 'topics' list)
RECURSIVE block_records(_, _, _, _)
block_records(filename, n, question_blocks, i) ==
    IF i > Len(question_blocks) THEN {<<>>}
    ELSE {<<[source |-> filename,
             page   |-> page_number(n),
             text   |-> question_blocks[i],
             topics |-> t]>> \o rest :
            t \in _identify_topics(question_blocks[i]),
            rest \in block_records(filename, n, question_blocks, i + 1)}

\* the file the loop of line 124 is at
tb_file == test_banks[tb_idx]

\* the existence test raising FileNotFoundError (outside the try) instead
\* of returning the empty list
ExistsCheck_raise ==
    /\ pc = "loop"
    /\ tb_idx <= Len(test_banks)
    /\ questions' = <<>>
    /\ \/ /\ files' = [files EXCEPT ![tb_file].state = "missing"]
          /\ pc' = "raised"
       \/ /\ DirSize < MaxDirSize
          /\ files' = [files EXCEPT ![tb_file].state = "exists"]
          /\ pc' = "open"
    /\ UNCHANGED <<tb_idx, page_num, all_questions,
                   selected_topics, max_questions, matching_questions,
                   stdout, call_vars, aux_vars>>

\* lines 126, 57-61: the call for the next test bank; a missing file returns
\* the empty list at once
ExistsCheck ==
    /\ pc = "loop"
    /\ tb_idx <= Len(test_banks)
    /\ questions' = <<>>
    /\ \/ /\ files' = [files EXCEPT ![tb_file].state = "missing"]
          /\ pc' = "extend"
       \/ /\ DirSize < MaxDirSize
          /\ files' = [files EXCEPT ![tb_file].state = "exists"]
          /\ pc' = "open"
    /\ UNCHANGED <<tb_idx, page_num, all_questions,
                   selected_topics, max_questions, matching_questions,
                   stdout, call_vars, aux_vars>>

\* lines 63-67: open the file and build the reader; either may raise
OpenPdf ==
    /\ pc = "open"
    /\ \/ /\ files' = [files EXCEPT ![tb_file].state = "unreadable"]
          /\ pc' = "except"
          /\ UNCHANGED page_num
       \/ \E n \in 0..(MaxDirSize - DirSize) :
            /\ files' = [files EXCEPT ![tb_file].state = "open",
                                      ![tb_file].num_pages = n]
            /\ page_num' = 0
            /\ pc' = "pages"
    /\ UNCHANGED <<tb_idx, questions, all_questions,
                   selected_topics, max_questions, matching_questions,
                   stdout, call_vars, aux_vars>>

\* the list with the lines a page has before its first question-start line
\* appended to the text of the last record: the block left open by the
\* page before
carry_over(list, lines) ==
    LET starts == {i \in DOMAIN lines : is_question_start(lines[i])}
        header == SelectSeq([i \in DOMAIN lines |->
                                IF \A s \in starts : i < s THEN <<lines[i]>> ELSE <<>>],
                            LAMBDA l : l # <<>>)
        top    == [i \in DOMAIN header |-> header[i][1]]
    IN IF list = <<>> \/ top = <<>> THEN list
       ELSE [list EXCEPT ![Len(list)].text = str_join(<<@>> \o top)]

\* the page loop with the block being accumulated kept from one page to the
\* next
ReadPage_carry ==
    /\ pc = "pages"
    /\ page_num < files[tb_file].num_pages
    /\ \E outcome \in PageOutcomes :
        /\ files' = [files EXCEPT ![tb_file].pages = Append(@, outcome)]
        /\ IF outcome.raises
           THEN /\ pc' = "except"
                /\ UNCHANGED <<questions, page_num>>
           ELSE /\ \E records \in block_records(tb_file, page_num,
                                   _split_into_questions(outcome.text), 1) :
                        questions' = carry_over(questions, str_split(outcome.text))
                                        \o records
                /\ page_num' = page_num + 1
                /\ pc' = "pages"
    /\ UNCHANGED <<tb_idx, all_questions, selected_topics,
                   max_questions, matching_questions, stdout, call_vars, aux_vars>>

\* lines 67-79: one iteration of the page loop; extract_text() may raise
ReadPage ==
    /\ pc = "pages"
    /\ page_num < files[tb_file].num_pages
    /\ \E outcome \in PageOutcomes :
        /\ files' = [files EXCEPT ![tb_file].pages = Append(@, outcome)]
        /\ IF outcome.raises
           THEN /\ pc' = "except"
                /\ UNCHANGED <<questions, page_num>>
           ELSE /\ \E records \in block_records(tb_file, page_num,
                                   _split_into_questions(outcome.text), 1) :
                        questions' = questions \o records
                /\ page_num' = page_num + 1
                /\ pc' = "pages"
    /\ UNCHANGED <<tb_idx, all_questions, selected_topics,
                   max_questions, matching_questions, stdout, call_vars, aux_vars>>

\* line 67 exhausted: leave the with and the try, go to line 83
EndOfPages ==
    /\ pc = "pages"
    /\ page_num = files[tb_file].num_pages
    /\ pc' = "extend"
    /\ UNCHANGED <<files, tb_idx, questions, page_num,
                   all_questions, selected_topics, max_questions,
                   matching_questions, stdout, call_vars, aux_vars>>

\* lines 80-81: the handler prints and falls through to line 83
ExceptHandler ==
    /\ pc = "except"
    /\ stdout' = Append(stdout, tb_file)
    /\ pc' = "extend"
    /\ UNCHANGED <<files, tb_idx, questions, page_num,
                   all_questions, selected_topics, max_questions,
                   matching_questions, call_vars, aux_vars>>

-----------------------------------------------------------------------------
\* QuestionExtractor.get_questions_by_topics

\* the selected_topics the call is made with
SelectedTopicsPool ==
    {<<>>, <<"1">>, <<"9", "6">>, <<"6", "1", "6">>}

\* the max_questions the call is made with: None or an integer
MaxQuestionsPool == {<<>>} \cup {<<n>> : n \in (-1)..MaxLimit}

\* the new records put in front of the list
extend_front(list, more) == more \o list

\* all_questions.extend(questions) (line 127)
extend(list, more) == list \o more

\* all(...) in place of any(...)
topic_match_all(question, selected) ==
    \A i \in DOMAIN selected : selected[i] \in set_of(question.topics)

\* any(topic in question['topics'] for topic in selected_topics) (line 134)
topic_match(question, selected) ==
    \E i \in DOMAIN selected : selected[i] \in set_of(question.topics)

\* lines 132-135
filter_matching(list, selected) ==
    SelectSeq(list, LAMBDA question : topic_match(question, selected))

\* the slice taken whenever max_questions is not None: matching[:0] is empty
\* and matching[:-n] drops the last n records
limit_questions_not_none(matching, max) ==
    IF max # <<>>
    THEN LET stop == IF max[1] >= 0 THEN max[1] ELSE Len(matching) + max[1]
         IN SubSeq(matching, 1, IF stop < Len(matching) THEN stop ELSE Len(matching))
    ELSE matching

\* lines 140-141: max_questions is truthy and positive
limit_questions(matching, max) ==
    IF max # <<>> /\ max[1] # 0 /\ max[1] > 0
    THEN SubSeq(matching, 1, IF max[1] < Len(matching) THEN max[1] ELSE Len(matching))
    ELSE matching

\* line 120: the call starts; its arguments are first read at line 134 and
\* are drawn there
Call ==
    /\ pc = "call"
    /\ all_questions' = <<>>
    /\ tb_idx' = 1
    /\ pc' = "loop"
    /\ UNCHANGED <<files, questions, page_num, selected_topics,
                   max_questions, matching_questions, stdout, call_vars, aux_vars>>

\* lines 83, 127: extract_questions_from_pdf returns its list and the loop
\* extends all_questions with it
Extend ==
    /\ pc = "extend"
    /\ all_questions' = extend(all_questions, questions)
    /\ tb_idx' = tb_idx + 1
    /\ pc' = "loop"
    /\ UNCHANGED <<files, questions, page_num, selected_topics,
                   max_questions, matching_questions, stdout, call_vars, aux_vars>>

\* lines 131-143: the loop is over; filter, limit, return
FilterAndReturn ==
    /\ pc = "loop"
    /\ tb_idx > Len(test_banks)
    /\ \E selected \in SelectedTopicsPool, max \in MaxQuestionsPool :
        /\ selected_topics' = selected
        /\ max_questions' = max
        /\ matching_questions' =
               limit_questions(filter_matching(all_questions, selected), max)
    /\ pc' = "done"
    /\ UNCHANGED <<files, tb_idx, questions, page_num,
                   all_questions, stdout, call_vars, aux_vars>>

Next ==
    \/ Call
    \/ ExistsCheck
    \/ OpenPdf
    \/ ReadPage
    \/ EndOfPages
    \/ ExceptHandler
    \/ Extend
    \/ FilterAndReturn

Spec == Init /\ [][Next]_vars

-----------------------------------------------------------------------------
\* The documents extracted by independent processes.  After the loop of
\* lines 124-127 has run over the directory, one process per document calls
\* extract_questions_from_pdf on the same directory, with locals of its own;
\* the processes take their steps in any order.

\* the documents that can exist in the directories the processes are run
\* on; the other documents are missing there
ParDocs == {"TB_1.pdf", "TB_4.pdf"}

\* the loop of lines 124-127 is over, on such a directory
LoopOver ==
    /\ pc = "loop"
    /\ tb_idx > Len(test_banks)
    /\ \A f \in set_of(test_banks) \ ParDocs : files[f].state = "missing"

proc_frame == <<pipeline_vars, call_vars, topic_keywords, call_log, ui_vars>>

\* a process imports the module for itself: its TOPIC_KEYWORDS is the dict
\* of lines 34-45.  The values of _split_into_questions on the page texts
\* of the runs and of _identify_topics, in a process, on their blocks,
\* computed once
proc_blocks_of ==
    [t \in {PageA, PageB} |-> _split_into_questions(t)]

proc_topics_of ==
    [b \in UNION {set_of(proc_blocks_of[t]) : t \in {PageA, PageB}} |->
        list_of(set_of(topic_loop(TOPIC_KEYWORDS_DICT, 1, str_lower(b), <<>>)))]

\* lines 73-79 in a process: the lists of dicts the loop over the blocks
\* from block i on can append
RECURSIVE proc_block_records(_, _, _, _)
proc_block_records(filename, n, question_blocks, i) ==
    IF i > Len(question_blocks) THEN {<<>>}
    ELSE {<<[source |-> filename,
             page   |-> page_number(n),
             text   |-> question_blocks[i],
             topics |-> t]>> \o rest :
            t \in proc_topics_of[question_blocks[i]],
            rest \in proc_block_records(filename, n, question_blocks, i + 1)}

\* lines 60-61, in the process of document f: the first step of a process
ProcExistsCheck(f) ==
    /\ LoopOver
    /\ procs[f].pc = "exists"
    /\ procs' = [procs EXCEPT ![f].pc =
                    IF files[f].state = "missing" THEN "returned" ELSE "open"]
    /\ UNCHANGED proc_frame

\* where the page loop of line 67 stands after n of the pages were read:
\* at the next page, or past the loop at the return of line 83
after_page(f, n) == IF n < files[f].num_pages THEN "pages" ELSE "returned"

\* lines 63-67 (and 80-83 when PdfReader raises), in the process of f
ProcOpenPdf(f) ==
    /\ procs[f].pc = "open"
    /\ procs' = [procs EXCEPT ![f] =
                    IF files[f].state = "unreadable"
                    THEN [@ EXCEPT !.pc = "returned",
                                   !.stdout = Append(@, f)]
                    ELSE [@ EXCEPT !.pc = after_page(f, 0), !.page_num = 0]]
    /\ UNCHANGED proc_frame

\* the page loop with the list 'questions' one object shared by the
\* processes: the records go to the list of every process still running
ProcReadPage_shared(f) ==
    /\ procs[f].pc = "pages"
    /\ procs[f].page_num < files[f].num_pages
    /\ LET outcome == files[f].pages[procs[f].page_num + 1]
       IN IF outcome.raises
          THEN procs' = [procs EXCEPT ![f].pc = "returned",
                                      ![f].stdout = Append(@, f)]
          ELSE \E records \in proc_block_records(f, procs[f].page_num,
                                  proc_blocks_of[outcome.text], 1) :
                  procs' = [g \in DOMAIN procs |->
                              IF g = f
                              THEN [procs[g] EXCEPT !.questions = @ \o records,
                                                    !.page_num = @ + 1,
                                                    !.pc = after_page(f, procs[f].page_num + 1)]
                              ELSE IF procs[g].pc # "returned"
                              THEN [procs[g] EXCEPT !.questions = @ \o records]
                              ELSE procs[g]]
    /\ UNCHANGED proc_frame

\* lines 67-79 (and 80-83 when extract_text() raises, or line 83 after the
\* last page): one iteration of the page loop in the process of f
ProcReadPage(f) ==
    /\ procs[f].pc = "pages"
    /\ procs[f].page_num < files[f].num_pages
    /\ LET outcome == files[f].pages[procs[f].page_num + 1]
       IN IF outcome.raises
          THEN procs' = [procs EXCEPT ![f].pc = "returned",
                                      ![f].stdout = Append(@, f)]
          ELSE \E records \in proc_block_records(f, procs[f].page_num,
                                  proc_blocks_of[outcome.text], 1) :
                  procs' = [procs EXCEPT ![f].questions = @ \o records,
                                         ![f].page_num = @ + 1,
                                         ![f].pc = after_page(f, procs[f].page_num + 1)]
    /\ UNCHANGED proc_frame

\* the lists the processes returned, concatenated in test_banks order
RECURSIVE concat_returned(_)
concat_returned(i) ==
    IF i > Len(test_banks) THEN <<>>
    ELSE procs[test_banks[i]].questions \o concat_returned(i + 1)

ParNext ==
    \/ Call
    \/ ExistsCheck
    \/ OpenPdf
    \/ ReadPage
    \/ EndOfPages
    \/ ExceptHandler
    \/ Extend
    \/ \E f \in set_of(test_banks) : ProcExistsCheck(f)
    \/ \E f \in set_of(test_banks) : ProcOpenPdf(f)
    \/ \E f \in set_of(test_banks) : ProcReadPage(f)

ParSpec == Init /\ [][ParNext]_vars

-----------------------------------------------------------------------------
\* question_selector.py: the QuestionExtractor of the GUI module, each method
\* as the value it returns for the directory the run has read (files)

\* TOPIC_KEYWORDS of question_selector.py (lines 36-47): the dict literal of
\* question_selector_cli.py, entry for entry
GUI_TOPIC_KEYWORDS == TOPIC_KEYWORDS

\* self.test_banks of question_selector.py (line 55)
gui_test_banks ==
    <<"TB_1.pdf", "TB_3.pdf", "TB_4.pdf", "TB_5.pdf", "TB_6.pdf", "TB_7.pdf">>

\* question_selector.py lines 96-106: the loop from line i on, then the
\* closing of the last block
RECURSIVE gui_split_loop(_, _, _, _)
gui_split_loop(lines, i, questions_, current_question) ==
    IF i > Len(lines)
    THEN (IF current_question # <<>>
          THEN Append(questions_, str_join(current_question))
          ELSE questions_)
    ELSE IF re_match_question(str_strip(lines[i]))
         THEN gui_split_loop(lines, i + 1,
                        IF current_question # <<>>
                        THEN Append(questions_, str_join(current_question))
                        ELSE questions_,
                        <<lines[i]>>)
    ELSE IF current_question # <<>>
         THEN gui_split_loop(lines, i + 1, questions_,
                        Append(current_question, lines[i]))
    ELSE gui_split_loop(lines, i + 1, questions_, current_question)

\* question_selector.py lines 88-108
gui_split_into_questions(text) == gui_split_loop(str_split(text), 1, <<>>, <<>>)

\* question_selector.py lines 115-119: the list topics
RECURSIVE gui_topic_loop(_, _, _)
gui_topic_loop(t, text_lower, topics) ==
    IF t > Len(GUI_TOPIC_KEYWORDS) THEN topics
    ELSE LET keywords == GUI_TOPIC_KEYWORDS[t].keywords
             found    == \E k \in DOMAIN keywords :
                            str_contains(keywords[k], text_lower)
         IN gui_topic_loop(t + 1, text_lower,
                           IF found
                           THEN Append(topics, GUI_TOPIC_KEYWORDS[t].topic_num)
                           ELSE topics)

\* question_selector.py lines 110-121: the lists the call can return
gui_identify_topics(question_text) ==
    list_of(set_of(gui_topic_loop(1, str_lower(question_text), <<>>)))

\* the values of the two methods on the page texts of the runs and on their
\* blocks, computed once
gui_blocks_of ==
    [t \in {PageA, PageB} |-> gui_split_into_questions(t)]

gui_topics_of ==
    [b \in UNION {set_of(gui_blocks_of[t]) : t \in {PageA, PageB}} |->
        gui_identify_topics(b)]

\* question_selector.py lines 76-82: the lists the loop over the blocks of
\* page n can append, from block i on
RECURSIVE gui_block_records(_, _, _, _)
gui_block_records(filename, n, question_blocks, i) ==
    IF i > Len(question_blocks) THEN {<<>>}
    ELSE {<<[source |-> filename,
             page   |-> n + 1,
             text   |-> question_blocks[i],
             topics |-> t]>> \o rest :
            t \in gui_topics_of[question_blocks[i]],
            rest \in gui_block_records(filename, n, question_blocks, i + 1)}

\* question_selector.py lines 69-82: the lists the page loop can build from
\* page n on; an extract_text() that raises ends the loop (line 83)
RECURSIVE gui_page_loop(_, _, _)
gui_page_loop(filename, n, questions_) ==
    LET pages == files[filename].pages
    IN IF n >= Len(pages) \/ pages[n + 1].raises THEN {questions_}
       ELSE UNION {gui_page_loop(filename, n + 1, questions_ \o records) :
                     records \in gui_block_records(filename, n,
                                    gui_blocks_of[pages[n + 1].text], 1)}

\* question_selector.py lines 57-86: the lists the call can return
gui_extract_questions_from_pdf(filename) ==
    IF files[filename].state \in {"missing", "unreadable"} THEN {<<>>}
    ELSE gui_page_loop(filename, 0, <<>>)

\* question_selector.py lines 125-129: the lists all_questions can be after
\* the loop from file i on
RECURSIVE gui_bank_loop(_, _)
gui_bank_loop(i, all_questions_) ==
    IF i > Len(gui_test_banks) THEN {all_questions_}
    ELSE UNION {gui_bank_loop(i + 1, all_questions_ \o questions_) :
                  questions_ \in gui_extract_questions_from_pdf(gui_test_banks[i])}

\* the limit taken on all_questions, before the filter
gui_select_limit_first(all_questions_, selected, max) ==
    LET first == IF max # <<>> /\ max[1] # 0 /\ max[1] > 0
                 THEN SubSeq(all_questions_, 1,
                             IF max[1] < Len(all_questions_) THEN max[1]
                             ELSE Len(all_questions_))
                 ELSE all_questions_
    IN SelectSeq(first,
                 LAMBDA question :
                     \E i \in DOMAIN selected :
                         selected[i] \in set_of(question.topics))

\* question_selector.py lines 131-141: the filter and the limit
gui_select(all_questions_, selected, max) ==
    LET matching == SelectSeq(all_questions_,
                        LAMBDA question :
                            \E i \in DOMAIN selected :
                                selected[i] \in set_of(question.topics))
    IN IF max # <<>> /\ max[1] # 0 /\ max[1] > 0
       THEN SubSeq(matching, 1, IF max[1] < Len(matching) THEN max[1] ELSE Len(matching))
       ELSE matching

\* question_selector.py lines 123-141: the lists the call can return
gui_get_questions_by_topics(selected, max) ==
    {gui_select(all_questions_, selected, max) :
        all_questions_ \in gui_bank_loop(1, <<>>)}

-----------------------------------------------------------------------------

\* Python str and int operations the front ends use

\* text.split(sep), sep one character
str_split_by(text, sep) ==
    LET at == {i \in DOMAIN text : text[i] = sep}
        \* where piece k begins and where it ends
        cut(k) == IF k = 0 THEN 0
                  ELSE IF k > Cardinality(at) THEN Len(text) + 1
                  ELSE CHOOSE p \in at : Cardinality({q \in at : q <= p}) = k
    IN [k \in 1..(Cardinality(at) + 1) |->
           SubSeq(text, cut(k - 1) + 1, cut(k) - 1)]

\* c in text, c one character
char_in(c, text) == \E i \in DOMAIN text : text[i] = c

\* text.replace(old, ""), old not empty
str_remove(text, old) ==
    LET RECURSIVE scan(_, _)
        scan(i, acc) ==
            IF i > Len(text) THEN acc
            ELSE IF i + Len(old) - 1 <= Len(text)
                    /\ SubSeq(text, i, i + Len(old) - 1) = old
                 THEN scan(i + Len(old), acc)
            ELSE scan(i + 1, Append(acc, text[i]))
    IN scan(1, <<>>)

DigitChars == <<"0", "1", "2", "3", "4", "5", "6", "7", "8", "9">>

digit_value(c) == (CHOOSE d \in DOMAIN DigitChars : DigitChars[d] = c) - 1

\* the digits of an int literal once white space and sign are taken off:
\* digits, possibly with single underscores between them
int_body(s) ==
    LET unsigned(t) ==
            IF t # <<>> /\ t[1] \in {"+", "-"} THEN SubSeq(t, 2, Len(t)) ELSE t
    IN unsigned(str_strip(s))

\* int(s) does not raise ValueError
int_valid(s) ==
    LET literal(b) ==
            /\ b # <<>>
            /\ \A i \in DOMAIN b : b[i] \in Digits \cup {"_"}
            /\ b[1] \in Digits /\ b[Len(b)] \in Digits
            /\ \A i \in 1..(Len(b) - 1) : ~(b[i] = "_" /\ b[i + 1] = "_")
    IN literal(int_body(s))

\* int(s), for s with int_valid(s)
int_value(s) ==
    LET RECURSIVE value(_, _, _)
        value(b, i, acc) ==
            IF i > Len(b) THEN acc
            ELSE IF b[i] = "_" THEN value(b, i + 1, acc)
            ELSE value(b, i + 1, 10 * acc + digit_value(b[i]))
        signed(t, magnitude) == IF t[1] = "-" THEN 0 - magnitude ELSE magnitude
    IN signed(str_strip(s), value(int_body(s), 1, 0))

\* str(n)
RECURSIVE int_str(_)
int_str(n) ==
    IF n < 0 THEN <<"-">> \o int_str(0 - n)
    ELSE IF n < 10 THEN <<DigitChars[n + 1]>>
    ELSE int_str(n \div 10) \o <<DigitChars[(n % 10) + 1]>>

\* sorted(keys, key=int), of a list whose keys have distinct int values
sorted_by_int(dict) ==
    LET RECURSIVE pick(_, _)
        pick(rest, acc) ==
            IF rest = {} THEN acc
            ELSE LET m == CHOOSE i \in rest :
                            \A j \in rest : int_value(dict[i].num) <= int_value(dict[j].num)
                 IN pick(rest \ {m}, Append(acc, dict[m]))
    IN pick(DOMAIN dict, <<>>)

\* the keys of a dict
dict_keys(dict) == {dict[i].num : i \in DOMAIN dict}

-----------------------------------------------------------------------------
\* question_selector_cli.py: main and the prompts it calls

\* longest line typed at the chapter prompt
MaxInput == 4
\* longest line typed at the count prompt, or in the GUI's count entry
MaxCountInput == 2

\* the lines typed at the prompts
CourseInputs ==
    {<<>>, <<"1">>, <<"2">>, <<" ", "2">>, <<"3">>, <<"1", "2">>, <<"A", "B">>}

SelectionInputs == SeqsUpTo({"1", "0", "9", ",", "-", " ", "x"}, MaxInput)

CountInputs == SeqsUpTo({"0", "1", "2", "-", " ", "x"}, MaxCountInput)

\* display_chapters (lines 169-180): the dict returned
display_chapters(course_) ==
    IF course_ = "BC"
    THEN AP_CALCULUS_AB_CHAPTERS \o AP_CALCULUS_BC_ADDITIONAL
    ELSE AP_CALCULUS_AB_CHAPTERS

\* lines 198-206, one part of the selection: what it adds to 'selected',
\* or the exception raised
part_selected(part_) ==
    LET \* line 203: range(start, end + 1) as strings
        range(start, end) ==
            [raised |-> FALSE,
             items  |-> IF end < start THEN <<>>
                        ELSE [i \in 1..(end + 1 - start) |->
                                 int_str(start + i - 1)]]
        \* lines 201-202: start, end = part.split('-'), then int of each
        unpack(pieces) ==
            IF Len(pieces) # 2 THEN [raised |-> TRUE, items |-> <<>>]
            ELSE IF ~int_valid(str_strip(pieces[1]))
                    \/ ~int_valid(str_strip(pieces[2]))
            THEN [raised |-> TRUE, items |-> <<>>]
            ELSE range(int_value(str_strip(pieces[1])),
                       int_value(str_strip(pieces[2])))
        one(part) ==
            IF char_in("-", part) THEN unpack(str_split_by(part, "-"))
            ELSE [raised |-> FALSE, items |-> <<part>>]
    IN one(str_strip(part_))

\* lines 196-206: the loop over the parts from part i on
RECURSIVE parts_loop(_, _, _)
parts_loop(parts, i, selected) ==
    LET step(r) ==
            IF r.raised THEN [raised |-> TRUE, selected |-> selected]
            ELSE parts_loop(parts, i + 1, selected \o r.items)
    IN IF i > Len(parts) THEN [raised |-> FALSE, selected |-> selected]
       ELSE step(part_selected(parts[i]))

\* the list 'selected' taken as it is
valid_selections_unchecked(selected, chapters_) == selected

\* lines 209-214: the selected keys that are keys of chapters
valid_selections(selected, chapters_) ==
    SelectSeq(selected, LAMBDA s_ : s_ \in dict_keys(chapters_))

\* lines 190-222, one pass of the while loop on the line typed: the list
\* returned, or None when the loop goes round again
select_chapters_pass(line, chapters_) ==
    LET checked(valid) == IF valid = <<>> THEN <<>> ELSE <<valid>>
        parsed(r) ==
            IF r.raised THEN <<>>
            ELSE checked(valid_selections(r.selected, chapters_))
    IN parsed(parts_loop(str_split_by(str_strip(line), ","), 1, <<>>))

\* lines 230-238, one pass of the while loop on the line typed: the number
\* returned, or None when the loop goes round again
get_question_count_pass(line) ==
    LET accepted(num) == IF num >= 0 THEN <<num>> ELSE <<>>
        parsed(count) ==
            IF int_valid(count) THEN accepted(int_value(count)) ELSE <<>>
    IN parsed(str_strip(line))

\* line 319: max_q = num_questions if num_questions > 0 else None
max_q(num) == IF num > 0 THEN <<num>> ELSE <<>>

ui_frame == <<pipeline_vars, call_vars, topic_keywords, call_log, procs>>

\* python question_selector_cli.py: main starts (lines 295-300)
CliMain ==
    /\ ui_pc = "off"
    /\ ui_pc' = "select_course"
    /\ UNCHANGED <<course, chapters, selected_chapters, num_questions,
                   chapter_listbox, invoked, ui_frame>>

\* select_course (lines 153-166) on one line typed, then display_chapters
\* (line 302)
SelectCourse ==
    /\ ui_pc = "select_course"
    /\ \E line \in CourseInputs :
         LET choice == str_strip(line)
         IN IF choice \in {<<"1">>, <<"2">>}
            THEN /\ course' = IF choice = <<"1">> THEN "AB" ELSE "BC"
                 /\ chapters' = display_chapters(course')
                 /\ ui_pc' = "select_chapters"
            ELSE UNCHANGED <<course, chapters, ui_pc>>
    /\ UNCHANGED <<selected_chapters, num_questions, chapter_listbox,
                   invoked, ui_frame>>

\* select_chapters (lines 183-222) on one line typed
SelectChapters ==
    /\ ui_pc = "select_chapters"
    /\ \E line \in SelectionInputs :
       \E returned \in {select_chapters_pass(line, chapters)} :
            IF returned # <<>>
            THEN /\ selected_chapters' = returned[1]
                 /\ ui_pc' = "get_question_count"
            ELSE UNCHANGED <<selected_chapters, ui_pc>>
    /\ UNCHANGED <<course, chapters, num_questions, chapter_listbox,
                   invoked, ui_frame>>

\* get_question_count (lines 225-238) on one line typed
GetQuestionCount ==
    /\ ui_pc = "get_question_count"
    /\ \E line \in CountInputs :
       \E returned \in {get_question_count_pass(line)} :
            IF returned # <<>>
            THEN /\ num_questions' = returned
                 /\ ui_pc' = "search"
            ELSE UNCHANGED <<num_questions, ui_pc>>
    /\ UNCHANGED <<course, chapters, selected_chapters, chapter_listbox,
                   invoked, ui_frame>>

\* lines 318-320: the call of get_questions_by_topics
CliSearch ==
    /\ ui_pc = "search"
    /\ invoked' = <<[selected_topics |-> selected_chapters,
                     max_questions   |-> max_q(num_questions[1])]>>
    /\ ui_pc' = "cli_called"
    /\ UNCHANGED <<course, chapters, selected_chapters, num_questions,
                   chapter_listbox, ui_frame>>

-----------------------------------------------------------------------------
\* question_selector.py: QuestionSelectorGUI

\* the chapter dicts of question_selector.py (lines 18-27 and 30-33): the
\* dict literals of question_selector_cli.py, entry for entry
GUI_AP_CALCULUS_AB_CHAPTERS == AP_CALCULUS_AB_CHAPTERS

GUI_AP_CALCULUS_BC_ADDITIONAL == AP_CALCULUS_BC_ADDITIONAL

\* update_chapter_list (lines 228-238): the entries the list box holds
\* after the call
update_chapter_list(course_var) ==
    LET chapters_ == IF course_var = "BC"
                     THEN GUI_AP_CALCULUS_AB_CHAPTERS \o GUI_AP_CALCULUS_BC_ADDITIONAL
                     ELSE GUI_AP_CALCULUS_AB_CHAPTERS
        ordered   == sorted_by_int(chapters_)
        RECURSIVE insert(_, _)
        insert(i, entries) ==
            IF i > Len(ordered) THEN entries
            ELSE insert(i + 1,
                        Append(entries,
                               <<"C","h","a","p","t","e","r"," ">> \o ordered[i].num
                                   \o <<":"," ">> \o ordered[i].name))
    IN insert(1, <<>>)

\* line 252: chapter_text.split(":")[0].replace("Chapter ", "").strip()
chapter_num_of(chapter_text) ==
    str_strip(str_remove(str_split_by(chapter_text, ":")[1],
                         <<"C","h","a","p","t","e","r"," ">>))

\* lines 248-253: selected_topics, for the indices curselection() returned
\* (in increasing order)
gui_selected_topics(selected_indices) ==
    LET idx(k) == CHOOSE i \in selected_indices :
                      Cardinality({j \in selected_indices : j <= i}) = k
    IN [k \in 1..Cardinality(selected_indices) |->
           chapter_num_of(chapter_listbox[idx(k)])]

\* line 269: max_q = num_questions if num_questions > 0 else None
gui_max_q(num) == IF num > 0 THEN <<num>> ELSE <<>>

\* __init__ and create_widgets (lines 147-226): course_var is "AB" and the
\* list box is filled (line 199)
GuiStart ==
    /\ ui_pc = "off"
    /\ course' = "AB"
    /\ chapter_listbox' = update_chapter_list(course')
    /\ ui_pc' = "mainloop"
    /\ UNCHANGED <<chapters, selected_chapters, num_questions, invoked,
                   ui_frame>>

\* a course radio button is clicked (lines 176-181): course_var is set and
\* update_chapter_list runs; the selection of the list box is lost with its
\* entries
ClickCourse ==
    /\ ui_pc = "mainloop"
    /\ \E value \in {"AB", "BC"} :
         /\ course' = value
         /\ chapter_listbox' = update_chapter_list(value)
    /\ UNCHANGED <<ui_pc, chapters, selected_chapters, num_questions,
                   invoked, ui_frame>>

\* search_questions, lines 240-253: the handler starts on a click of the
\* button and builds selected_topics from the entries selected in the list
\* box, or warns and returns when there is none
SearchReadSelection ==
    /\ ui_pc = "mainloop"
    /\ \E selected_indices \in SUBSET DOMAIN chapter_listbox :
         IF selected_indices = {}
         THEN UNCHANGED <<ui_pc, selected_chapters>>
         ELSE /\ selected_chapters' = gui_selected_topics(selected_indices)
              /\ ui_pc' = "search_count"
    /\ UNCHANGED <<course, chapters, num_questions, chapter_listbox, invoked,
                   ui_frame>>

\* search_questions, lines 255-270: the text of the count entry is read;
\* the handler shows an error and returns, or calls get_questions_by_topics
SearchReadCount ==
    /\ ui_pc = "search_count"
    /\ \E text \in CountInputs :
       \E entered \in {IF int_valid(text) THEN <<int_value(text)>> ELSE <<>>} :
         IF entered = <<>> \/ entered[1] < 0
         THEN /\ ui_pc' = "mainloop"
              /\ selected_chapters' = <<>>
              /\ UNCHANGED <<num_questions, invoked>>
         ELSE /\ num_questions' = entered
              /\ invoked' = <<[selected_topics |-> selected_chapters,
                               max_questions   |-> gui_max_q(entered[1])]>>
              /\ ui_pc' = "gui_called"
              /\ UNCHANGED selected_chapters
    /\ UNCHANGED <<course, chapters, chapter_listbox, ui_frame>>

\* the call returned and the handler ends (lines 272-290): back in mainloop
SearchReturns ==
    /\ ui_pc = "gui_called"
    /\ ui_pc' = "mainloop"
    /\ selected_chapters' = <<>>
    /\ num_questions' = <<>>
    /\ invoked' = <<>>
    /\ UNCHANGED <<course, chapters, chapter_listbox, ui_frame>>

UiNext ==
    \/ CliMain
    \/ SelectCourse
    \/ SelectChapters
    \/ GetQuestionCount
    \/ CliSearch
    \/ GuiStart
    \/ ClickCourse
    \/ SearchReadSelection
    \/ SearchReadCount
    \/ SearchReturns

UiSpec == Init /\ [][UiNext]_vars

-----------------------------------------------------------------------------

\* Properties of _split_into_questions and _identify_topics (CallSpec).

\* A question-start line as the specification words it: once the surrounding
\* whitespace is stripped the line begins with one or more digits, a period
\* and at least one whitespace character (which, surviving the strip, is
\* followed by something that is not whitespace).
StartsQuestion(line) ==
    \E a \in 1..Len(line), n \in 1..Len(line) :
        /\ \A i \in 1..(a - 1) : line[i] \in Whitespace
        /\ a + n + 1 <= Len(line)
        /\ \A i \in a..(a + n - 1) : line[i] \in Digits
        /\ line[a + n] = "."
        /\ line[a + n + 1] \in Whitespace
        /\ \E j \in (a + n + 2)..Len(line) : line[j] \notin Whitespace

\* the positions of the question-start lines of a page, in increasing order
StartPositions(lines) ==
    LET S == {i \in DOMAIN lines : StartsQuestion(lines[i])}
        RECURSIVE sorted(_, _)
        sorted(rest, acc) ==
            IF rest = {} THEN acc
            ELSE LET m == CHOOSE x \in rest : \A y \in rest : x <= y
                 IN sorted(rest \ {m}, Append(acc, m))
    IN sorted(S, <<>>)

SplitReturned == op = "_split_into_questions" /\ ret # <<>>

IdentifyReturned == op = "_identify_topics" /\ ret # <<>>

\* C1: _split_into_questions returns exactly as many blocks as the page has
\* question-start lines; a page without a question-start line yields no block.
C1_BlockCountEqualsStartLines ==
    SplitReturned =>
        Len(ret[1]) = Len(StartPositions(str_split(arg)))

\* C1 witness: a page with a discarded header line and two question-start
\* lines has been split into two blocks.
C1_Witness ==
    /\ SplitReturned
    /\ Len(ret[1]) = 2
    /\ Len(str_split(arg)) = 3
    /\ ~StartsQuestion(str_split(arg)[1])

\* C2: every block is a run of consecutive page lines that begins at a
\* question-start line and stops before the next one, the k-th block begins
\* at the k-th question-start line, and so no line in front of the first
\* question-start line is part of a block.
C2_BlocksBeginAtStartLines ==
    SplitReturned =>
        LET lines  == str_split(arg)
            starts == StartPositions(lines)
        IN \A k \in DOMAIN ret[1] :
              LET block == str_split(ret[1][k])
              IN /\ k <= Len(starts)
                 /\ StartsQuestion(block[1])
                 /\ \A j \in 2..Len(block) : ~StartsQuestion(block[j])
                 /\ starts[k] + Len(block) - 1 <= Len(lines)
                 /\ \A j \in 1..Len(block) : block[j] = lines[starts[k] + j - 1]
                 /\ k < Len(starts) => starts[k] + Len(block) - 1 < starts[k + 1]

\* C2 witness: two blocks came out of a page whose first line is not a
\* question-start line, the first block having a body line.
C2_Witness ==
    /\ SplitReturned
    /\ Len(ret[1]) = 2
    /\ ~StartsQuestion(str_split(arg)[1])
    /\ Len(str_split(ret[1][1])) = 2

\* the topic ids with a keyword occurring in the lower-cased text
TopicsWithKeyword(text) ==
    {TOPIC_KEYWORDS[t].topic_num : t \in
        {u \in DOMAIN TOPIC_KEYWORDS :
            \E k \in DOMAIN TOPIC_KEYWORDS[u].keywords :
                str_contains(TOPIC_KEYWORDS[u].keywords[k], str_lower(text))}}

\* C3: _identify_topics returns each topic id having a keyword in the
\* lower-cased block text exactly once, and no other id.
C3_TopicsAreThoseWithKeyword ==
    IdentifyReturned =>
        /\ set_of(ret[1]) = TopicsWithKeyword(arg)
        /\ \A i, j \in DOMAIN ret[1] : ret[1][i] = ret[1][j] => i = j

\* C3 witness: a block with an upper-case keyword of one topic and a keyword
\* shared by two other topics has been classified with three ids.
C3_Witness ==
    /\ IdentifyReturned
    /\ Len(ret[1]) = 3
    /\ \E i \in DOMAIN arg : arg[i] \in set_of(UpperCase)

\* C3 witness of the empty case: a block without any keyword.
C3_WitnessEmpty ==
    /\ IdentifyReturned
    /\ Len(arg) > 0
    /\ ret[1] = <<>>

-----------------------------------------------------------------------------
\* Properties of the extraction pipeline and the selection (Spec).

\* position of a file name in test_banks
DocIndex(f) == CHOOSE i \in DOMAIN test_banks : test_banks[i] = f

\* the two sets of topic ids have an element in common
Intersects(topics, selected) == set_of(topics) \cap set_of(selected) # {}

\* reading the file failed: on opening it or on one of its pages
ReadFailed(f) ==
    \/ files[f].state = "unreadable"
    \/ \E k \in DOMAIN files[f].pages : files[f].pages[k].raises

\* the matching records S, in extraction order
SelectedRecords ==
    SelectSeq(all_questions, LAMBDA q : Intersects(q.topics, selected_topics))

\* no limit applies: max_questions is None or not positive
NoLimit == max_questions = <<>> \/ max_questions[1] <= 0

\* C4: without a limit a record of the extraction output is returned iff its
\* topics intersect selected_topics; with or without a limit every returned
\* record is one of the extraction output whose topics intersect them.
C4_ReturnedIffTopicsIntersect ==
    pc = "done" =>
        /\ \A j \in DOMAIN matching_questions :
              /\ Intersects(matching_questions[j].topics, selected_topics)
              /\ \E i \in DOMAIN all_questions :
                    all_questions[i] = matching_questions[j]
        /\ NoLimit =>
              \A i \in DOMAIN all_questions :
                  Intersects(all_questions[i].topics, selected_topics) =>
                      \E j \in DOMAIN matching_questions :
                          matching_questions[j] = all_questions[i]

\* C4 witness: without a limit, a record with two topics was returned for a
\* selection naming one of them, and a record without topics was left out.
C4_Witness ==
    /\ pc = "done"
    /\ NoLimit
    /\ selected_topics = <<"9", "6">>
    /\ \E j \in DOMAIN matching_questions : Len(matching_questions[j].topics) = 2
    /\ \E i \in DOMAIN all_questions : all_questions[i].topics = <<>>

\* C5: the call returns the first min(L, |S|) records of S when
\* max_questions = L > 0 and all of S when it is None, zero or negative.
C5_LimitTakesFirstRecords ==
    pc = "done" =>
        LET S == SelectedRecords
        IN IF max_questions # <<>> /\ max_questions[1] > 0
           THEN /\ Len(matching_questions) =
                      (IF max_questions[1] < Len(S) THEN max_questions[1] ELSE Len(S))
                /\ \A j \in DOMAIN matching_questions : matching_questions[j] = S[j]
           ELSE matching_questions = S

\* C5 witness: three records match and a limit of two cut the third off.
C5_Witness ==
    /\ pc = "done"
    /\ max_questions = <<2>>
    /\ Len(SelectedRecords) = 3
    /\ Len(matching_questions) = 2

\* C5 witness of the zero case: a limit of 0 returned several records.
C5_WitnessZero ==
    /\ pc = "done"
    /\ max_questions = <<0>>
    /\ Len(matching_questions) >= 2

\* the blocks of each page text of the runs
BlocksOf == [t \in {PageA, PageB} |-> _split_into_questions(t)]

\* the records each page text of the runs stands for, file and page aside
DataOf ==
    [t \in {PageA, PageB} |->
        [b \in DOMAIN BlocksOf[t] |->
            [text |-> BlocksOf[t][b], topics |-> TopicsWithKeyword(BlocksOf[t][b])]]]

\* the positions a record's text has among the blocks of the page it names
BlockPositions(r) ==
    LET pages == files[r.source].pages
    IN IF r.page \in DOMAIN pages /\ ~pages[r.page].raises
       THEN LET blocks == BlocksOf[pages[r.page].text]
            IN {k \in DOMAIN blocks : blocks[k] = r.text}
       ELSE {}

\* C6: in the record list the pipeline builds, an earlier record never comes
\* from a later document, nor from a later page of the same document, nor
\* from a later block of the same page.
C6_DocumentPageBlockOrder ==
    \A i, j \in DOMAIN all_questions :
        i < j =>
            LET a == all_questions[i]
                b == all_questions[j]
            IN /\ DocIndex(a.source) <= DocIndex(b.source)
               /\ a.source = b.source => a.page <= b.page
               /\ (a.source = b.source /\ a.page = b.page) =>
                      \E ka \in BlockPositions(a), kb \in BlockPositions(b) : ka < kb

\* C6 witness: the list holds the three blocks of a page of one document
\* followed by records of a later document.
C6_Witness ==
    /\ Len(all_questions) >= 4
    /\ all_questions[1].source = all_questions[3].source
    /\ all_questions[1].page = all_questions[3].page
    /\ all_questions[1].source # all_questions[4].source

\* C6 witness of the page order: records of two pages of one document.
C6_WitnessPages ==
    /\ Len(all_questions) >= 4
    /\ all_questions[1].source = all_questions[4].source
    /\ all_questions[1].page < all_questions[4].page

\* C7 as claimed: a document whose reading failed has no record in the
\* extraction output, the error stays inside the call, and the loop still
\* visits every document.
C7_NoRecordOfFailedDocument ==
    /\ pc # "raised"
    /\ pc = "done" => \A f \in set_of(test_banks) : files[f].state # "unseen"
    /\ \A i \in DOMAIN all_questions : ~ReadFailed(all_questions[i].source)

\* a record as compared by the claims: the order of 'topics' is immaterial
AsData(r) ==
    [source |-> r.source, page |-> r.page, text |-> r.text,
     topics |-> set_of(r.topics)]

\* the records the pages read from file f stand for
RECURSIVE PageRecords(_, _)
PageRecords(f, k) ==
    IF k > Len(files[f].pages) THEN <<>>
    ELSE (IF files[f].pages[k].raises THEN <<>>
          ELSE LET data == DataOf[files[f].pages[k].text]
               IN [b \in DOMAIN data |->
                      [source |-> f, page |-> k, text |-> data[b].text,
                       topics |-> data[b].topics]])
         \o PageRecords(f, k + 1)

\* the records of file f in the extraction output
RecordsOf(f) ==
    LET own == SelectSeq(all_questions, LAMBDA q : q.source = f)
    IN [i \in DOMAIN own |-> AsData(own[i])]

\* C8: a configured document whose file does not exist contributes no
\* record and raises nothing, and the output holds the records of the other
\* documents as if it had not been configured.
C8_MissingDocumentContributesNothing ==
    (\E m \in set_of(test_banks) : files[m].state = "missing") =>
        /\ pc # "raised"
        /\ \A i \in DOMAIN all_questions :
              files[all_questions[i].source].state # "missing"
        /\ (pc = "loop" /\ tb_idx > Len(test_banks)) =>
              \A f \in set_of(test_banks) : RecordsOf(f) = PageRecords(f, 1)

\* C8 witness: the loop is over, a missing document stands between two
\* documents that both contributed records.
C8_Witness ==
    /\ pc = "loop" /\ tb_idx > Len(test_banks)
    /\ \E a, m, b \in DOMAIN test_banks :
          /\ a < m /\ m < b
          /\ files[test_banks[m]].state = "missing"
          /\ RecordsOf(test_banks[a]) # <<>>
          /\ RecordsOf(test_banks[b]) # <<>>

\* a record's page is a page read from its document and holds its block
OnItsPage(r) ==
    /\ r.page >= 1
    /\ r.page <= Len(files[r.source].pages)
    /\ ~files[r.source].pages[r.page].raises
    /\ r.text \in set_of(BlocksOf[files[r.source].pages[r.page].text])

\* C9: every record's page number is at least 1 and is the 1-based position
\* in its source document of the page its block starts on.
C9_PageNumberIsPagePosition ==
    /\ \A i \in DOMAIN questions : OnItsPage(questions[i])
    /\ \A i \in DOMAIN all_questions : OnItsPage(all_questions[i])

\* C9 witness: a record of page 2 of a document whose page 1 has other text.
C9_Witness ==
    \E i \in DOMAIN all_questions :
        LET r == all_questions[i]
        IN /\ r.page = 2
           /\ files[r.source].pages[1].text # files[r.source].pages[2].text
           /\ OnItsPage(r)

\* the documents the returned value reports as failed
ReportedFailures(returned) ==
    {returned[j].source : j \in
        {k \in DOMAIN returned : "status" \in DOMAIN returned[k]}}

\* C10 as claimed: the value the call returns tells which documents failed.
C10_FailuresReturnedAsData ==
    pc = "done" =>
        ReportedFailures(matching_questions) =
            {f \in set_of(test_banks) : ReadFailed(f)}

-----------------------------------------------------------------------------
\* Untagged records and the empty selection

\* the blocks of the pages read from file f that hold no keyword, as the
\* records they stand for
UntaggedBlocks(f) ==
    LET recs == PageRecords(f, 1)
    IN {recs[i] : i \in {k \in DOMAIN recs : recs[k].topics = {}}}

\* the records of the extraction output that carry no topic
UntaggedRecords ==
    {AsData(all_questions[i]) :
        i \in {k \in DOMAIN all_questions : all_questions[k].topics = <<>>}}

\* C11: once the list a document's extraction returned has been taken into
\* the output, every block of its pages that holds no configured keyword has
\* a record there, with an empty topic list; and a call made with a non-empty
\* selected_topics returns no record with an empty topic list.
C11_UntaggedRecordKeptNeverSelected ==
    /\ \A f \in set_of(test_banks) :
          (files[f].state # "unseen" /\ DocIndex(f) < tb_idx) =>
              UntaggedBlocks(f) \subseteq UntaggedRecords
    /\ (pc = "done" /\ selected_topics # <<>>) =>
          \A j \in DOMAIN matching_questions :
              matching_questions[j].topics # <<>>

\* C11 witness: a call with a non-empty selection has returned records while
\* the extraction output holds a record without topics.
C11_Witness ==
    /\ pc = "done"
    /\ selected_topics # <<>>
    /\ matching_questions # <<>>
    /\ UntaggedRecords # {}
    /\ \E f \in set_of(test_banks) : UntaggedBlocks(f) # {}

\* C12: a call made with an empty selected_topics returns the empty list,
\* whatever the extraction output and max_questions are, and raises nothing.
C12_EmptySelectionReturnsNothing ==
    /\ pc # "raised"
    /\ (pc = "done" /\ selected_topics = <<>>) => matching_questions = <<>>

\* C12 witness: a call with an empty selection and a positive limit has
\* returned while the extraction output holds records.
C12_Witness ==
    /\ pc = "done"
    /\ selected_topics = <<>>
    /\ max_questions # <<>> /\ max_questions[1] > 0
    /\ all_questions # <<>>

-----------------------------------------------------------------------------
\* The blocks of a page, joined

\* the positions of the page text at which a line begins
LineBegins(text) ==
    {1} \cup {i + 1 : i \in {k \in DOMAIN text : text[k] = "\n"}}

\* the line of the page text that begins at position p
LineAt(text, p) ==
    LET ends == {i \in p..Len(text) : text[i] = "\n"}
        stop == IF ends = {} THEN Len(text) + 1
                ELSE CHOOSE i \in ends : \A j \in ends : i <= j
    IN SubSeq(text, p, stop - 1)

\* the positions at which a question-start line of the page text begins
QuestionBegins(text) ==
    {p \in LineBegins(text) : StartsQuestion(LineAt(text, p))}

\* C17: when the page has a question-start line, the blocks that
\* _split_into_questions returns, joined with newlines, are the page text
\* from the beginning of its first question-start line to its end, character
\* for character.
C17_JoinedBlocksAreThePageTail ==
    (SplitReturned /\ QuestionBegins(arg) # {}) =>
        LET begins == QuestionBegins(arg)
            first  == CHOOSE p \in begins : \A q \in begins : p <= q
        IN str_join(ret[1]) = SubSeq(arg, first, Len(arg))

\* C17 witness: a page with a header line and two blocks, one of which
\* starts with white space.
C17_Witness ==
    /\ SplitReturned
    /\ Len(ret[1]) = 2
    /\ 1 \notin QuestionBegins(arg)
    /\ \E k \in DOMAIN ret[1] : ret[1][k][1] \in Whitespace

-----------------------------------------------------------------------------
\* Blocks and page boundaries

\* of each page text of the runs: the text from the beginning of its first
\* question-start line on (nothing when it has none), its lines before that
\* line, and its last line
PageTail ==
    [t \in {PageA, PageB} |->
        LET begins == QuestionBegins(t)
        IN IF begins = {} THEN <<>>
           ELSE SubSeq(t, CHOOSE p \in begins : \A q \in begins : p <= q, Len(t))]

PageHeader ==
    [t \in {PageA, PageB} |->
        LET begins == QuestionBegins(t)
        IN {LineAt(t, p) : p \in {q \in LineBegins(t) : \A b \in begins : q < b}}]

PageLastLine ==
    [t \in {PageA, PageB} |->
        LineAt(t, CHOOSE p \in LineBegins(t) : \A q \in LineBegins(t) : q <= p)]

\* the lines of every block of the page texts of the runs
BlockLines ==
    [b \in UNION {{BlocksOf[t][k] : k \in DOMAIN BlocksOf[t]} : t \in {PageA, PageB}} |->
        {LineAt(b, p) : p \in LineBegins(b)}]

\* the texts of the records of page k of file f in the extraction output
TextsOfPage(f, k) ==
    LET own == SelectSeq(all_questions, LAMBDA q : q.source = f /\ q.page = k)
    IN [i \in DOMAIN own |-> own[i].text]

\* the pages of file f that were read without error
PagesRead(f) == {k \in DOMAIN files[f].pages : ~files[f].pages[k].raises}

\* C16: of every page of a document taken into the output, the texts of
\* its records, joined with newlines, are that page's text from its first
\* question-start line to its end, so that every block lies within one page
\* and the last block of a page ends with the page's last line; and no line
\* the next page has before its first question-start line is a line of a
\* record of the page.
C16_BlocksStayWithinTheirPage ==
    \A f \in set_of(test_banks) :
        (files[f].state # "unseen" /\ DocIndex(f) < tb_idx) =>
            \A k \in PagesRead(f) :
                LET page  == files[f].pages[k].text
                    texts == TextsOfPage(f, k)
                IN /\ str_join(texts) = PageTail[page]
                   /\ (texts = <<>>) = (PageTail[page] = <<>>)
                   /\ texts # <<>> =>
                         PageLastLine[page] \in BlockLines[texts[Len(texts)]]
                   /\ (k + 1) \in PagesRead(f) =>
                         \A i \in DOMAIN texts :
                             BlockLines[texts[i]]
                                 \cap PageHeader[files[f].pages[k + 1].text] = {}

\* C16 witness: the output holds the records of a document with two pages
\* that both begin with a heading and hold question blocks.
C16_Witness ==
    \E f \in set_of(test_banks) :
        /\ files[f].state # "unseen" /\ DocIndex(f) < tb_idx
        /\ {1, 2} \subseteq PagesRead(f)
        /\ TextsOfPage(f, 1) # <<>>
        /\ TextsOfPage(f, 2) # <<>>
        /\ PageHeader[files[f].pages[2].text] # {}

-----------------------------------------------------------------------------
\* The two QuestionExtractor classes

\* a list of records as compared by the claims
DataList(list) == [i \in DOMAIN list |-> AsData(list[i])]

\* C18: for the page contents the call of the CLI module's
\* get_questions_by_topics has read and the selected_topics and max_questions
\* it was made with, every list the GUI module's get_questions_by_topics can
\* return holds the same records in the same order as the list the CLI
\* call returned: same source, page, text and set of topics.
C18_GuiExtractorReturnsTheSameRecords ==
    pc = "done" =>
        \A returned \in gui_get_questions_by_topics(selected_topics, max_questions) :
            DataList(returned) = DataList(matching_questions)

\* C18 witness: the call returned records of two documents, cut by the limit.
C18_Witness ==
    /\ pc = "done"
    /\ Len(matching_questions) >= 2
    /\ matching_questions[1].source # matching_questions[Len(matching_questions)].source
    /\ max_questions # <<>> /\ max_questions[1] = Len(matching_questions)
    /\ \E f \in set_of(test_banks) : files[f].state = "missing"

-----------------------------------------------------------------------------
\* Repeated classification

\* the _identify_topics calls among the calls made so far
IdentifyCalls ==
    {i \in DOMAIN call_log : call_log[i].op = "_identify_topics"}

\* C13: whatever calls were made before and between them, two calls of
\* _identify_topics with the same text return the same set of topic ids
\* (the order of the returned list aside), and TOPIC_KEYWORDS is after every
\* call the dict the module defined.
C13_IdentifyTopicsRepeatable ==
    /\ topic_keywords = TOPIC_KEYWORDS_DICT
    /\ \A i, j \in IdentifyCalls :
          call_log[i].arg = call_log[j].arg =>
              set_of(call_log[i].ret) = set_of(call_log[j].ret)

\* C13 witness: a text with two topics was classified twice, with another
\* call in between, and the two returned lists differ in order.
C13_Witness ==
    /\ Len(call_log) = 3
    /\ {1, 3} \subseteq IdentifyCalls
    /\ call_log[1].arg = call_log[3].arg
    /\ call_log[2].arg # call_log[1].arg
    /\ call_log[1].ret # call_log[3].ret
    /\ Len(call_log[1].ret) = 2

-----------------------------------------------------------------------------
\* Documents extracted independently

\* C14: whatever the other processes have done so far, the list the
\* process of a document returned holds the records of that document's own
\* pages; and once every process has returned, the lists concatenated in
\* test_banks order are the list the loop of get_questions_by_topics built.
C14_IndependentExtractionsAgree ==
    /\ \A f \in set_of(test_banks) :
          procs[f].pc = "returned" =>
              DataList(procs[f].questions) = PageRecords(f, 1)
    /\ (\A f \in set_of(test_banks) : procs[f].pc = "returned") =>
          DataList(concat_returned(1)) = DataList(all_questions)

\* C14 witness: the process of a later document has returned records before
\* the process of an earlier document, which also holds question blocks, has
\* read its first page.
C14_Witness ==
    \E f, g \in set_of(test_banks) :
        /\ DocIndex(f) < DocIndex(g)
        /\ procs[g].pc = "returned" /\ procs[g].questions # <<>>
        /\ procs[f].pc = "pages" /\ procs[f].page_num = 0
        /\ PageRecords(f, 1) # <<>>

\* C14 witness of the whole: every process has returned, two of them with
\* records.
C14_WitnessAll ==
    /\ \A f \in set_of(test_banks) : procs[f].pc = "returned"
    /\ \E f, g \in set_of(test_banks) :
          f # g /\ procs[f].questions # <<>> /\ procs[g].questions # <<>>

-----------------------------------------------------------------------------
\* The calls the front ends make

\* the chapter ids of a course
CatalogKeys(course_) ==
    {<<"1">>, <<"2">>, <<"3">>, <<"4">>, <<"5">>, <<"6">>, <<"7">>, <<"8">>}
        \cup (IF course_ = "BC" THEN {<<"9">>, <<"1", "0">>} ELSE {})

\* C15: whenever main of the CLI or search_questions of the GUI calls
\* get_questions_by_topics, the list passed is not empty and holds only
\* chapter ids of the course selected, and the limit passed is None or a
\* positive integer: the count accepted is not negative, and a count of 0
\* is passed as None.
C15_CallArgumentsValid ==
    invoked # <<>> =>
        LET call == invoked[1]
        IN /\ call.selected_topics # <<>>
           /\ \A i \in DOMAIN call.selected_topics :
                 call.selected_topics[i] \in CatalogKeys(course)
           /\ call.max_questions = <<>> \/ call.max_questions[1] > 0
           /\ num_questions # <<>> /\ num_questions[1] >= 0
           /\ call.max_questions =
                 (IF num_questions[1] = 0 THEN <<>> ELSE num_questions)

\* C15 witness: main has made the call for course BC with chapter 10 among
\* the chapters and the count 0 entered.
C15_Witness ==
    /\ ui_pc = "cli_called"
    /\ course = "BC"
    /\ \E i \in DOMAIN invoked[1].selected_topics :
          invoked[1].selected_topics[i] = <<"1", "0">>
    /\ num_questions = <<0>>
    /\ invoked[1].max_questions = <<>>

\* C15 witness of the GUI: search_questions has made the call with three
\* chapters of course BC and a positive count.
C15_WitnessGui ==
    /\ ui_pc = "gui_called"
    /\ course = "BC"
    /\ Len(invoked[1].selected_topics) = 3
    /\ invoked[1].selected_topics[3] = <<"1", "0">>
    /\ invoked[1].max_questions = <<2>>

====
